---- MODULE Spec2Model ----
(***************************************************************************)
(* Model of the ELT pipeline job scripts of sling_runner:                  *)
(*   src/job/job_api.py  REST variant (get_auth_headers, run_app,          *)
(*                       get_run_status, wait_for_run, main)               *)
(*   src/job/job.py      SDK variant (main over tower.run_app and          *)
(*                       tower.wait_for_runs)                              *)
(* Python values are encoded as follows.  An Optional value is a sequence  *)
(* of length at most one: <<>> is None, <<v>> is the value v.  A dict is a *)
(* record; an absent key is a field that is not in its DOMAIN.  A call's   *)
(* result is a record with a field exc ("" when it returned normally).     *)
(***************************************************************************)
EXTENDS Integers, Sequences, FiniteSets, TLC

\* ------------------------------------------------------------- bounds
\* the clock stops advancing here (caps the length of a wait)
MaxTime == 5
\* largest timeout and poll interval a direct caller of wait_for_run passes
MaxTimeout == 3
MaxInterval == 2

\* ------------------------------------------------- program constants
\* wait_for_run(run_id, poll_interval=2, timeout=None)
DefaultPollInterval == 2

None == <<>>
Some(v) == <<v>>

\* Python truthiness of an Optional[str]: None and "" are falsy
TruthyStr(o) == o # None /\ o[1] # ""
\* Python truthiness of an Optional[int]: None and 0 are falsy
TruthyInt(o) == o # None /\ o[1] # 0
\* str(v) as an f-string renders it
Str(o) == IF o = None THEN "None" ELSE o[1]
\* dict.get(key): None when the key is absent
Get(d, k) == IF k \in DOMAIN d THEN d[k] ELSE None
\* dict.get(key, default) for plain (non-Optional) values
GetOr(d, k, default) == IF k \in DOMAIN d THEN d[k] ELSE default

Stages == {1, 2}
AppName(s) == IF s = 1 THEN "sling_easy" ELSE "dbt_easy"

TerminalStatuses == {"succeeded", "failed", "cancelled", "error"}
NonTerminalStatuses == {"pending", "running"}

\* ------------------------------------------------------- environment
\* values os.getenv can give for a credential variable
CredentialValues == {None, Some(""), Some("K")}
SessionTokenValues == {None, Some(""), Some("S")}

\* ~/.tower/session.json: missing; present but not JSON; a JSON object
\* without 'token'; a JSON object with 'token'; a JSON list holding 'token'
FileMissing == [exists |-> FALSE, parses |-> FALSE, kind |-> "none", data |-> [user |-> Some("u")]]
FileCorrupt == [exists |-> TRUE, parses |-> FALSE, kind |-> "none", data |-> [user |-> Some("u")]]
FileNoToken == [exists |-> TRUE, parses |-> TRUE, kind |-> "dict", data |-> [user |-> Some("u")]]
FileToken == [exists |-> TRUE, parses |-> TRUE, kind |-> "dict", data |-> [token |-> Some("F")]]
FileNullToken == [exists |-> TRUE, parses |-> TRUE, kind |-> "dict", data |-> [token |-> None]]
FileList == [exists |-> TRUE, parses |-> TRUE, kind |-> "list", data |-> [token |-> Some("F")]]

SessionFiles == {FileMissing, FileCorrupt, FileNoToken, FileToken, FileNullToken, FileList}

VARIABLES
  variant,              \* "rest": job_api.main; "sdk": job.main; "wait", "auth", "run_app":
                        \* a direct call of wait_for_run, get_auth_headers, run_app;
                        \* "sling_run", "dbt_run": a run of that script; "re_sub": a
                        \* direct call of a template resolver
  TOWER_API_KEY,        \* module constant read at import (job_api.py:14)
  TOWER_SESSION_TOKEN,  \* module constant read at import (job_api.py:15)
  session_file,         \* the cached session file get_auth_headers reads
  pc,                   \* main's position
  exit_code,            \* None while the process runs, else Some(code)
  run_ids,              \* sling_run_id / dbt_run_id once run_app returned
  remote,               \* the platform's status of each stage's run ("none": not started)
  term_at,              \* the time at which each run became terminal
  now,                  \* time.time()
  w,                    \* the frame of the current wait_for_run call
  requests,             \* every HTTP request sent, in order
  printed,              \* the run identifiers that appeared on stdout
  sleeps,               \* the argument of every time.sleep of the current wait
  polls,                \* the current wait's get_run_status calls: how many, how many
                        \* gave a non-terminal status, and the last payload given
  call_result,          \* what a direct call of get_auth_headers or run_app gave
  launch_calls,         \* the stages run_app was called for, in order
  wait_result,          \* per stage: what the wait gave back to main
  environ,              \* os.environ of a configuration script (sling_run.py, dbt_run.py)
  environ_at_start,     \* os.environ as the script found it
  dotenv,               \* the .env file next to the script: None when there is none,
                        \* else Some(the keys it defines, with their values)
  template,             \* the template file (env.yaml, profiles.yml): None when there
                        \* is none, else Some(its content)
  sc                    \* what the configuration script has done so far

vars == << variant, TOWER_API_KEY, TOWER_SESSION_TOKEN, session_file, pc, exit_code,
           run_ids, remote, term_at, now, w, requests, printed, sleeps, polls,
           launch_calls, wait_result, call_result, environ, environ_at_start, dotenv,
           template, sc >>

envVars == << variant, TOWER_API_KEY, TOWER_SESSION_TOKEN, session_file >>

\* the state of the configuration scripts, which the job scripts never touch
cfgVars == << environ, environ_at_start, dotenv, template, sc >>

\* the environments the pipeline and the waiter are run in: one per way
\* get_auth_headers can end (API key, session token, session file, none)
RunEnvs ==
  { << Some("K"), Some("S"), FileToken >>, << Some(""), Some("S"), FileCorrupt >>,
    << None, None, FileToken >>, << None, Some(""), FileNoToken >> }


\* ------------------------------------------------- get_auth_headers
\* job_api.py:29-38: the session file branch; every exception is swallowed
SessionFileHeaders(headers, file) ==
  IF ~file.exists THEN headers
  ELSE IF ~file.parses THEN headers
  ELSE IF "token" \notin DOMAIN file.data THEN headers
  ELSE IF file.kind # "dict" THEN headers   \* session_data['token'] raises TypeError, swallowed
  ELSE [ContentType |-> headers.ContentType,
        Authorization |-> <<"Bearer", Str(file.data.token)>>]

get_auth_headers_no_priority(key, tok, file) ==
  LET base == [ContentType |-> "application/json"]
      headers ==
        IF TruthyStr(tok)
          THEN [ContentType |-> base.ContentType, Authorization |-> <<"Bearer", tok[1]>>]
        ELSE IF TruthyStr(key)
          THEN [ContentType |-> base.ContentType, Authorization |-> <<"Bearer", key[1]>>]
        ELSE SessionFileHeaders(base, file)
  IN IF "Authorization" \notin DOMAIN headers
       THEN [exc |-> "ValueError", val |-> base]
       ELSE [exc |-> "", val |-> headers]

get_auth_headers(key, tok, file) ==
  LET base == [ContentType |-> "application/json"]
      headers ==
        IF TruthyStr(key)
          THEN [ContentType |-> base.ContentType, Authorization |-> <<"Bearer", key[1]>>]
        ELSE IF TruthyStr(tok)
          THEN [ContentType |-> base.ContentType, Authorization |-> <<"Bearer", tok[1]>>]
        ELSE SessionFileHeaders(base, file)
  IN IF "Authorization" \notin DOMAIN headers
       THEN [exc |-> "ValueError", val |-> base]
       ELSE [exc |-> "", val |-> headers]

\* ---------------------------------------------------------- run_app
RunId(s) == IF s = 1 THEN "r1" ELSE "r2"
AltId(s) == IF s = 1 THEN "x1" ELSE "x2"

\* what the platform may answer to a request
HttpOutcomes == {"ok", "http_error", "bad_json"}

\* bodies of a start-run answer: 'run_id' and 'id' each absent, null, empty or set
StartResponses(s) ==
  { [status |-> Some("pending")],
    [status |-> Some("pending"), run_id |-> Some(RunId(s))],
    [status |-> Some("pending"), id |-> Some(AltId(s))],
    [status |-> Some("pending"), run_id |-> Some(RunId(s)), id |-> Some(AltId(s))],
    [status |-> Some("pending"), run_id |-> Some(""), id |-> Some(AltId(s))],
    [status |-> Some("pending"), run_id |-> None, id |-> Some(AltId(s))],
    [status |-> Some("pending"), run_id |-> Some(RunId(s)), id |-> Some("")],
    [status |-> Some("pending"), run_id |-> Some(""), id |-> None],
    [status |-> Some("pending"), run_id |-> None, id |-> Some("")] }

\* Python's  a or b  on Optional[str] values
Or(a, b) == IF TruthyStr(a) THEN a ELSE b

extract_run_id_id_first(result) == Or(Get(result, "id"), Get(result, "run_id"))

\* job_api.py:75
extract_run_id(result) == Or(Get(result, "run_id"), Get(result, "id"))

\* a status request that cancels the run it asks about
GetRequest_cancel(rid, headers) ==
  [method |-> "POST", url |-> <<"runs", rid, "cancel">>, headers |-> headers]

PostRequest(s, headers) ==
  [method |-> "POST", url |-> <<"apps", AppName(s), "runs">>, headers |-> headers]

GetRequest(rid, headers) ==
  [method |-> "GET", url |-> <<"runs", rid>>, headers |-> headers]

\* the request leaves before the credentials are checked
run_app_post_first(s, auth, http, response) ==
  IF auth.exc # ""
    THEN [exc |-> auth.exc, val |-> None, reqs |-> << PostRequest(s, auth.val) >>, out |-> {}]
  ELSE IF http = "http_error"
    THEN [exc |-> "HTTPStatusError", val |-> None, reqs |-> << PostRequest(s, auth.val) >>, out |-> {}]
  ELSE IF http = "bad_json"
    THEN [exc |-> "JSONDecodeError", val |-> None, reqs |-> << PostRequest(s, auth.val) >>, out |-> {}]
  ELSE LET run_id == extract_run_id(response) IN
    IF ~TruthyStr(run_id)
      THEN [exc |-> "ValueError", val |-> None, reqs |-> << PostRequest(s, auth.val) >>, out |-> {}]
      ELSE [exc |-> "", val |-> run_id, reqs |-> << PostRequest(s, auth.val) >>, out |-> {run_id[1]}]

\* job_api.py:49-81.  auth is get_auth_headers()'s result; http and response
\* are the platform's answer to the POST, read only if the POST is sent.
run_app(s, auth, http, response) ==
  IF auth.exc # ""
    THEN [exc |-> auth.exc, val |-> None, reqs |-> << >>, out |-> {}]
  ELSE IF http = "http_error"
    THEN [exc |-> "HTTPStatusError", val |-> None, reqs |-> << PostRequest(s, auth.val) >>, out |-> {}]
  ELSE IF http = "bad_json"
    THEN [exc |-> "JSONDecodeError", val |-> None, reqs |-> << PostRequest(s, auth.val) >>, out |-> {}]
  ELSE LET run_id == extract_run_id(response) IN
    IF ~TruthyStr(run_id)
      THEN [exc |-> "ValueError", val |-> None, reqs |-> << PostRequest(s, auth.val) >>, out |-> {}]
      ELSE [exc |-> "", val |-> run_id, reqs |-> << PostRequest(s, auth.val) >>, out |-> {run_id[1]}]

\* --------------------------------------------------- get_run_status
\* bodies of a get-status answer for a run whose status is st: with the
\* status, with the status and an error detail, without a status field
StatusPayloads(rid, st) ==
  { [id |-> rid, status |-> st],
    [id |-> rid, status |-> st, error |-> "detail"],
    [id |-> rid] }

NoPayload == [id |-> ""]

\* job_api.py:84-100
get_run_status(rid, auth, http, payload) ==
  IF auth.exc # ""
    THEN [exc |-> auth.exc, val |-> NoPayload, reqs |-> << >>]
  ELSE IF http = "http_error"
    THEN [exc |-> "HTTPStatusError", val |-> NoPayload, reqs |-> << GetRequest(rid, auth.val) >>]
  ELSE IF http = "bad_json"
    THEN [exc |-> "JSONDecodeError", val |-> NoPayload, reqs |-> << GetRequest(rid, auth.val) >>]
  ELSE [exc |-> "", val |-> payload, reqs |-> << GetRequest(rid, auth.val) >>]

\* ----------------------------------------------------- wait_for_run
IdleFrame ==
  [state |-> "idle", stage |-> 1, run_id |-> "", poll_interval |-> DefaultPollInterval,
   timeout |-> None, start_time |-> 0, sleep_left |-> 0, status_data |-> NoPayload,
   exc |-> ""]

\* job_api.py:103,115: the call binds its arguments and reads the clock
enter_wait(s, rid, poll_interval, timeout, t) ==
  [state |-> "poll", stage |-> s, run_id |-> rid, poll_interval |-> poll_interval,
   timeout |-> timeout, start_time |-> t, sleep_left |-> 0, status_data |-> NoPayload,
   exc |-> ""]

\* a payload without a terminal status is handed back as if it were final
wait_iteration_returns_unknown(f, r, t) ==
  IF r.exc # ""
    THEN [f EXCEPT !.state = "raised", !.exc = r.exc]
  ELSE LET status_data == r.val
           status == GetOr(status_data, "status", "unknown")
       IN IF status \in {"succeeded", "failed", "cancelled", "error", "unknown"}
            THEN [f EXCEPT !.state = "returned", !.status_data = status_data]
          ELSE IF TruthyInt(f.timeout) /\ (t - f.start_time) > f.timeout[1]
            THEN [f EXCEPT !.state = "raised", !.exc = "TimeoutError",
                           !.status_data = status_data]
          ELSE [f EXCEPT !.state = "sleep", !.sleep_left = f.poll_interval,
                         !.status_data = status_data]

\* the deadline is tested before the status of the payload just fetched
wait_iteration_timeout_first(f, r, t) ==
  IF r.exc # ""
    THEN [f EXCEPT !.state = "raised", !.exc = r.exc]
  ELSE LET status_data == r.val
           status == GetOr(status_data, "status", "unknown")
       IN IF TruthyInt(f.timeout) /\ (t - f.start_time) > f.timeout[1]
            THEN [f EXCEPT !.state = "raised", !.exc = "TimeoutError",
                           !.status_data = status_data]
          ELSE IF status \in {"succeeded", "failed", "cancelled", "error"}
            THEN [f EXCEPT !.state = "returned", !.status_data = status_data]
          ELSE [f EXCEPT !.state = "sleep", !.sleep_left = f.poll_interval,
                         !.status_data = status_data]

\* a cancelled run is not recognised as finished
wait_iteration_cancelled_not_terminal(f, r, t) ==
  IF r.exc # ""
    THEN [f EXCEPT !.state = "raised", !.exc = r.exc]
  ELSE LET status_data == r.val
           status == GetOr(status_data, "status", "unknown")
       IN IF status \in {"succeeded", "failed", "error"}
            THEN [f EXCEPT !.state = "returned", !.status_data = status_data]
          ELSE IF TruthyInt(f.timeout) /\ (t - f.start_time) > f.timeout[1]
            THEN [f EXCEPT !.state = "raised", !.exc = "TimeoutError",
                           !.status_data = status_data]
          ELSE [f EXCEPT !.state = "sleep", !.sleep_left = f.poll_interval,
                         !.status_data = status_data]

\* the sleep between polls is longer than the poll interval
wait_iteration_jitter(f, r, t) ==
  IF r.exc # ""
    THEN [f EXCEPT !.state = "raised", !.exc = r.exc]
  ELSE LET status_data == r.val
           status == GetOr(status_data, "status", "unknown")
       IN IF status \in {"succeeded", "failed", "cancelled", "error"}
            THEN [f EXCEPT !.state = "returned", !.status_data = status_data]
          ELSE IF TruthyInt(f.timeout) /\ (t - f.start_time) > f.timeout[1]
            THEN [f EXCEPT !.state = "raised", !.exc = "TimeoutError",
                           !.status_data = status_data]
          ELSE [f EXCEPT !.state = "sleep", !.sleep_left = f.poll_interval + 1,
                         !.status_data = status_data]

\* job_api.py:117-131: one pass of the loop, given get_run_status's result r
\* and the clock t read at line 128.  The frame it leaves is "returned"
\* (line 125), "raised" (line 118 or 129) or "sleep" (line 131).
wait_iteration(f, r, t) ==
  IF r.exc # ""
    THEN [f EXCEPT !.state = "raised", !.exc = r.exc]
  ELSE LET status_data == r.val
           status == GetOr(status_data, "status", "unknown")
       IN IF status \in {"succeeded", "failed", "cancelled", "error"}
            THEN [f EXCEPT !.state = "returned", !.status_data = status_data]
          ELSE IF TruthyInt(f.timeout) /\ (t - f.start_time) > f.timeout[1]
            THEN [f EXCEPT !.state = "raised", !.exc = "TimeoutError",
                           !.status_data = status_data]
          ELSE [f EXCEPT !.state = "sleep", !.sleep_left = f.poll_interval,
                         !.status_data = status_data]

\* the status source's view of a payload: does it carry a terminal status
IsTerminal(payload) == GetOr(payload, "status", "unknown") \in TerminalStatuses

WaitEnded(f) == f.state \in {"returned", "raised"}

\* --------------------------------------------------- job_api.py main
WaitPc(s) == IF s = 1 THEN "wait1" ELSE "wait2"
LaunchPc(s) == IF s = 1 THEN "launch1" ELSE "launch2"
StageOf(p) == IF p \in {"launch1", "wait1"} THEN 1 ELSE 2

\* only the status "failed" stops the pipeline
main_after_wait_only_failed(s, f) ==
  IF f.state = "raised"
    THEN [pc |-> "exited", exit_code |-> Some(1), out |-> {}]
  ELSE LET final_status == GetOr(f.status_data, "status", "unknown") IN
    IF final_status = "failed"
      THEN [pc |-> "exited", exit_code |-> Some(1), out |-> {f.run_id}]
    ELSE IF s = 1
      THEN [pc |-> "launch2", exit_code |-> None, out |-> {f.run_id}]
      ELSE [pc |-> "exited", exit_code |-> Some(0), out |-> {f.run_id}]

\* the status of stage 2's run is not looked at
main_after_wait_stage2_unchecked(s, f) ==
  IF f.state = "raised"
    THEN [pc |-> "exited", exit_code |-> Some(1), out |-> {}]
  ELSE LET final_status == GetOr(f.status_data, "status", "unknown") IN
    IF s = 1 /\ final_status # "succeeded"
      THEN [pc |-> "exited", exit_code |-> Some(1), out |-> {f.run_id}]
    ELSE IF s = 1
      THEN [pc |-> "launch2", exit_code |-> None, out |-> {f.run_id}]
      ELSE [pc |-> "exited", exit_code |-> Some(0), out |-> {f.run_id}]

\* an exception out of the wait is swallowed and the pipeline goes on
main_after_wait_swallow(s, f) ==
  LET final_status == GetOr(f.status_data, "status", "unknown") IN
    IF f.state # "raised" /\ final_status # "succeeded"
      THEN [pc |-> "exited", exit_code |-> Some(1), out |-> {f.run_id}]
    ELSE IF s = 1
      THEN [pc |-> "launch2", exit_code |-> None, out |-> {f.run_id}]
      ELSE [pc |-> "exited", exit_code |-> Some(0), out |-> {f.run_id}]

\* job_api.py:163-178 and 196-215: what main does with the outcome of
\* wait_for_run for stage s (f is the frame the wait ended in)
main_after_wait(s, f) ==
  IF f.state = "raised"
    THEN [pc |-> "exited", exit_code |-> Some(1), out |-> {}]
  ELSE LET final_status == GetOr(f.status_data, "status", "unknown") IN
    IF final_status # "succeeded"
      THEN [pc |-> "exited", exit_code |-> Some(1), out |-> {f.run_id}]
    ELSE IF s = 1
      THEN [pc |-> "launch2", exit_code |-> None, out |-> {f.run_id}]
      ELSE [pc |-> "exited", exit_code |-> Some(0), out |-> {f.run_id}]

\* what a wait gave back: the exception, or the status of the payload
WaitOutcome(f) ==
  Some([exc |-> f.exc,
        status |-> IF f.state = "returned"
                     THEN GetOr(f.status_data, "status", "unknown") ELSE ""])

NoPolls == [calls |-> 0, nonterminal |-> 0, last |-> NoPayload, exc |-> ""]

\* ============================================ the configuration scripts
\* sling_run.py and dbt/dbt_after_el/dbt_run.py.  Text (a template, a value,
\* a resolved configuration) is a sequence of units: "$", "{", "}", the
\* double quote and each character of a variable's value are units of their
\* own; a variable's name and a stretch of plain YAML text are one unit, made
\* of characters none of which is "$", "{" or "}".
Quote == "\""
Digits == {"0", "1", "2", "3", "4", "5", "6", "7", "8", "9"}
Whitespace == {" ", "\t", "\n"}
UpperCase == <<"A", "B", "C", "D", "E", "F", "G", "H", "I", "J", "K", "L", "M",
               "N", "O", "P", "Q", "R", "S", "T", "U", "V", "W", "X", "Y", "Z">>
LowerCase == <<"a", "b", "c", "d", "e", "f", "g", "h", "i", "j", "k", "l", "m",
               "n", "o", "p", "q", "r", "s", "t", "u", "v", "w", "x", "y", "z">>

SetMin(S) == CHOOSE x \in S : \A y \in S : x <= y
SetMax(S) == CHOOSE x \in S : \A y \in S : x >= y

\* str.lower()
LowerChar(c) ==
  IF \E i \in DOMAIN UpperCase : UpperCase[i] = c
    THEN LowerCase[CHOOSE i \in DOMAIN UpperCase : UpperCase[i] = c]
    ELSE c
lower(s) == [i \in 1..Len(s) |-> LowerChar(s[i])]

\* str.strip()
strip(s) ==
  LET kept == {i \in 1..Len(s) : s[i] \notin Whitespace} IN
    IF kept = {} THEN << >> ELSE SubSeq(s, SetMin(kept), SetMax(kept))

\* float(value) does not raise ValueError: optional blanks around an optional
\* sign and a decimal number with an optional exponent, or inf, infinity, nan
\* in any case (digit-group underscores are left out)
IsDigits(s) == Len(s) >= 1 /\ \A i \in 1..Len(s) : s[i] \in Digits
IsMantissa(s) ==
  \/ IsDigits(s)
  \/ \E k \in 1..Len(s) :
       /\ s[k] = "."
       /\ LET l == SubSeq(s, 1, k - 1)
              r == SubSeq(s, k + 1, Len(s))
          IN /\ l = << >> \/ IsDigits(l)
             /\ r = << >> \/ IsDigits(r)
             /\ l # << >> \/ r # << >>
Unsigned(s) == IF s # << >> /\ s[1] \in {"+", "-"} THEN Tail(s) ELSE s
IsNumber(s) ==
  \/ IsMantissa(s)
  \/ \E k \in 2..(Len(s) - 1) :
       /\ s[k] \in {"e", "E"}
       /\ IsMantissa(SubSeq(s, 1, k - 1))
       /\ IsDigits(Unsigned(SubSeq(s, k + 1, Len(s))))
float_parses(value) ==
  LET u == Unsigned(strip(value)) IN
    \/ IsNumber(u)
    \/ lower(u) \in {<<"i", "n", "f">>, <<"i", "n", "f", "i", "n", "i", "t", "y">>,
                     <<"n", "a", "n">>}

\* the variables the scripts read or write
EnvNames ==
  {"TOWER_PARAMETER_USE_ENV", "TAXI_PG_PASSWORD", "TAXI_PG_USER", "SLING_CLI_TOKEN",
   "INSTANCE", "DBT_THREADS", "SLING_ENV_YAML", "DBT_PROFILE_YAML"}

\* os.getenv(var_name, default) for a name cut out of a template: a name of
\* several units is no variable of the environment
getenv(env, var_name, default) ==
  IF Len(var_name) = 1 /\ var_name[1] \in DOMAIN env /\ env[var_name[1]] # None
    THEN env[var_name[1]][1]
    ELSE default

\* f'"{value}"'
Quoted(value) == <<Quote>> \o value \o <<Quote>>

\* a resolver that puts nothing where a variable is not set
sling_resolve_env_vars_empty_default(env, match) ==
  getenv(env, match.group1, << >>)

\* sling_run.py:63-65: resolve_env_vars of the env.yaml resolver
sling_resolve_env_vars(env, match) ==
  getenv(env, match.group1, match.group0)

\* a resolver that wraps a value in quotes whether or not it has them
dbt_resolve_env_vars_requote(env, match) ==
  LET value == getenv(env, match.group1, match.group0) IN
    IF value # match.group0 /\ value # << >>
      THEN Quoted(value)
      ELSE value

\* dbt_run.py:76-91: resolve_env_vars of the profiles.yml resolver
dbt_resolve_env_vars(env, match) ==
  LET value == getenv(env, match.group1, match.group0) IN
    IF value # match.group0 /\ value # << >>
      THEN IF float_parses(value)
             THEN Quoted(value)
           ELSE IF ~(value[1] = Quote /\ value[Len(value)] = Quote)
             THEN Quoted(value)
           ELSE value
      ELSE value

\* the two resolvers, named after the template each one resolves
Resolvers == {"env.yaml", "profiles.yml"}
resolve_env_vars(resolver, env, match) ==
  IF resolver = "env.yaml"
    THEN sling_resolve_env_vars(env, match)
    ELSE dbt_resolve_env_vars(env, match)

\* the pattern \$\{([^}]+)\} tried at position i of s: the position of the
\* closing brace of the match, or 0 when there is no match at i.  [^}]+
\* takes everything up to the first "}", and must take at least one unit.
MatchEnd(s, i) ==
  IF i + 1 <= Len(s) /\ s[i] = "$" /\ s[i + 1] = "{"
    THEN LET closing == {j \in (i + 2)..Len(s) : s[j] = "}"} IN
           IF closing # {} /\ SetMin(closing) >= i + 3 THEN SetMin(closing) ELSE 0
    ELSE 0

\* re.sub scanning s from position i: the leftmost match is handed to the
\* callback and the scan goes on behind it; a unit with no match at it is
\* copied.  One record per step: what was read and what was written for it.
RECURSIVE re_sub_steps(_, _, _, _)
re_sub_steps(resolver, env, s, i) ==
  IF i > Len(s) THEN << >>
  ELSE LET j == MatchEnd(s, i) IN
    IF j = 0
      THEN << [match |-> FALSE, group0 |-> <<s[i]>>, group1 |-> << >>, ret |-> <<s[i]>>] >>
           \o re_sub_steps(resolver, env, s, i + 1)
      ELSE LET m == [group0 |-> SubSeq(s, i, j), group1 |-> SubSeq(s, i + 2, j - 1)] IN
           << [match |-> TRUE, group0 |-> m.group0, group1 |-> m.group1,
               ret |-> resolve_env_vars(resolver, env, m)] >>
           \o re_sub_steps(resolver, env, s, j + 1)

RECURSIVE Join(_)
Join(texts) == IF texts = << >> THEN << >> ELSE Head(texts) \o Join(Tail(texts))

\* sling_run.py:68, dbt_run.py:94: re.sub(pattern, resolve_env_vars, content)
\* gives the text (out) after calling the callback once per match (calls)
re_sub(resolver, env, s) ==
  LET steps == re_sub_steps(resolver, env, s, 1) IN
    [out |-> Join([k \in 1..Len(steps) |-> steps[k].ret]),
     calls |-> SelectSeq(steps, LAMBDA st : st.match)]

\* ---------------------------------------------- the scripts' steps
Scripts == {"sling_run", "dbt_run"}

\* sling_run.py:39,47 and dbt_run.py:57
RequiredVars(script) ==
  IF script = "sling_run"
    THEN {"TAXI_PG_PASSWORD", "SLING_CLI_TOKEN", "TAXI_PG_USER", "INSTANCE"}
    ELSE {"TAXI_PG_PASSWORD", "TAXI_PG_USER"}

\* sling_run.py:71 and dbt_run.py:100: the variable the resolved text goes to
Slot(script) == IF script = "sling_run" THEN "SLING_ENV_YAML" ELSE "DBT_PROFILE_YAML"

\* sling_run.py:57,68 and dbt_run.py:69,94
ResolverOf(script) == IF script = "sling_run" THEN "env.yaml" ELSE "profiles.yml"

\* sling_run.py:17-23, dbt_run.py:36-42
use_env_file(env) ==
  IF env["TOWER_PARAMETER_USE_ENV"] # None
    THEN lower(env["TOWER_PARAMETER_USE_ENV"][1]) = <<"t", "r", "u", "e">>
    ELSE TRUE

\* a load that leaves a variable alone when the process already has it
load_dotenv_no_override(env, file) ==
  [n \in DOMAIN env |-> IF n \in DOMAIN file /\ env[n] = None THEN Some(file[n]) ELSE env[n]]

\* sling_run.py:31, dbt_run.py:50: load_dotenv(env_file, override=True)
\* sets every key of the file to the file's value
load_dotenv(env, file) ==
  [n \in DOMAIN env |-> IF n \in DOMAIN file THEN Some(file[n]) ELSE env[n]]

\* sling_run.py:25-35, dbt_run.py:44-54
env_file_step(env, file) ==
  IF use_env_file(env) /\ file # None
    THEN load_dotenv(env, file[1])
    ELSE env

\* a check that stops the script when a variable is missing
check_required_enforced(script, env) ==
  LET missing == {v \in RequiredVars(script) : env[v] = None \/ env[v][1] = << >>} IN
    [warnings |-> missing, found |-> RequiredVars(script) \ missing,
     exc |-> IF missing # {} THEN "SystemExit" ELSE ""]

\* sling_run.py:39-53, dbt_run.py:57-66: one "Found" or one "Warning" line
\* per variable, and nothing else
check_required(script, env) ==
  LET missing == {v \in RequiredVars(script) : env[v] = None \/ env[v][1] = << >>} IN
    [warnings |-> missing, found |-> RequiredVars(script) \ missing, exc |-> ""]

\* a script that publishes the template as it read it
publish_template_unresolved(script, env, tmpl) ==
  IF tmpl # None
    THEN LET r == re_sub(ResolverOf(script), env, tmpl[1]) IN
           [environ |-> [env EXCEPT ![Slot(script)] = Some(tmpl[1])],
            resolved |-> Some(r.out), calls |-> r.calls, writes |-> 1]
    ELSE [environ |-> env, resolved |-> None, calls |-> << >>, writes |-> 0]

\* sling_run.py:57-74, dbt_run.py:69-103: if the template file exists it is
\* read, resolved and the result assigned to the slot; else a warning is
\* printed
publish_template(script, env, tmpl) ==
  IF tmpl # None
    THEN LET r == re_sub(ResolverOf(script), env, tmpl[1]) IN
           [environ |-> [env EXCEPT ![Slot(script)] = Some(r.out)],
            resolved |-> Some(r.out), calls |-> r.calls, writes |-> 1]
    ELSE [environ |-> env, resolved |-> None, calls |-> << >>, writes |-> 0]

\* dbt_run.py:11-17
_get_env_value(env, name) ==
  IF env[name] = None THEN None
  ELSE IF strip(env[name][1]) = << >> THEN None
  ELSE Some(strip(env[name][1]))

\* int(threads_str) does not raise ValueError (digit-group underscores are
\* left out)
int_parses(s) == IsDigits(Unsigned(strip(s)))

\* what the calls into the tower package at dbt_run.py:115 and 153 can do
TowerOutcomes == {"ok", "parse_command_plan raised", "load_profile_from_env raised"}

\* dbt_run.py:107-153: the settings of the dbt run are read; the exception
\* that ends it, if any
dbt_configure(env, tower_outcome) ==
  LET threads_str == _get_env_value(env, "DBT_THREADS") IN
    IF tower_outcome = "parse_command_plan raised" THEN "tower.dbt"
    ELSE IF threads_str # None /\ ~int_parses(threads_str[1]) THEN "ValueError"
    ELSE IF tower_outcome = "load_profile_from_env raised" THEN "tower.dbt"
    ELSE ""

IdleScript ==
  [resolver |-> "", use_env_file |-> None, warnings |-> {}, found |-> {}, calls |-> << >>,
   resolved |-> None, slot_writes |-> 0, tool |-> None, error |-> ""]

NoEnviron == [n \in EnvNames |-> None]

\* ------------------------------------------------ the scripts' inputs
\* the longest template of a direct call of a resolver, in pieces
MaxPieces == 3

Placeholder(name) == <<"$", "{", name, "}">>

ValDev == <<"d", "e", "v">>
ValSecret == <<"p", "w">>

\* values of a variable a template names: empty, numbers, words, quoted
\* text, a lone quote, and the text of the placeholder itself
ResolverValues ==
  { << >>, <<"5">>, <<"3", ".", "1", "4">>, <<"1", "e", "3">>, <<"n", "a", "n">>, ValDev,
    Quoted(ValDev), Quoted(<<"5">>), <<Quote>>, Placeholder("TAXI_PG_USER") }

\* the pieces templates are put together from: placeholders, plain text,
\* and the fragments of a placeholder
Pieces ==
  { Placeholder("TAXI_PG_USER"), Placeholder("TAXI_PG_PASSWORD"), <<"user: ">>,
    <<"$", "{">>, <<"}">>, <<"$">> }

RECURSIVE TemplatesOf(_)
TemplatesOf(n) ==
  IF n = 0 THEN {<< >>}
  ELSE LET shorter == TemplatesOf(n - 1) IN
         shorter \cup {t \o p : t \in shorter, p \in Pieces}

Templates == TemplatesOf(MaxPieces)

ReSubEnvirons ==
  { [NoEnviron EXCEPT !["TAXI_PG_USER"] = user, !["TAXI_PG_PASSWORD"] = password] :
      user \in {None} \cup {Some(v) : v \in ResolverValues},
      password \in {None, Some(ValSecret)} }

\* TOWER_PARAMETER_USE_ENV: unset, true in two spellings, false, empty
FlagValues ==
  { None, Some(<<"t", "r", "u", "e">>), Some(<<"T", "r", "u", "E">>),
    Some(<<"f", "a", "l", "s", "e">>), Some(<< >>) }

ScriptEnvirons(script) ==
  { [n \in EnvNames |->
       CASE n = "TOWER_PARAMETER_USE_ENV" -> flag
         [] n = "TAXI_PG_PASSWORD" -> password
         [] n = "TAXI_PG_USER" -> user
         [] n = "SLING_CLI_TOKEN" -> token
         [] n = "INSTANCE" -> instance
         [] n = "DBT_THREADS" -> threads
         [] n = Slot(script) -> slot
         [] OTHER -> None] :
      flag \in FlagValues,
      password \in {None, Some(ValSecret)},
      user \in {None, Some(<< >>), Some(ValDev)},
      token \in IF script = "sling_run" THEN {None, Some(<<"t", "o", "k">>)} ELSE {None},
      instance \in IF script = "sling_run" THEN {None, Some(<<"i", "1">>)} ELSE {None},
      threads \in IF script = "dbt_run" THEN {None, Some(<<"4">>), Some(<<"a", "b", "c">>)}
                                        ELSE {None},
      slot \in {None, Some(<<"old">>)} }

\* no .env file; one that sets a variable; one that sets several, the flag
\* among them
DotenvFiles ==
  { None,
    Some([TAXI_PG_USER |-> <<"5">>]),
    Some([TAXI_PG_USER |-> <<"a", "d", "m", "i", "n">>, TAXI_PG_PASSWORD |-> <<"s", "3">>,
          TOWER_PARAMETER_USE_ENV |-> <<"f", "a", "l", "s", "e">>]) }

\* no template file; one placeholder; several, one of them for a variable
\* nobody sets
ScriptTemplates ==
  { None,
    Some(<<"user: ">> \o Placeholder("TAXI_PG_USER")),
    Some(Placeholder("TAXI_PG_USER") \o <<" password: ">> \o Placeholder("TAXI_PG_PASSWORD")
         \o <<" port: ">> \o Placeholder("PORT")) }

\* --------------------------------------------------------------- Init
Init ==
  /\ variant \in {"rest", "sdk", "wait", "auth", "run_app", "re_sub"} \cup Scripts
  /\ TOWER_API_KEY \in CredentialValues
  /\ TOWER_SESSION_TOKEN \in SessionTokenValues
  /\ session_file \in SessionFiles
  /\ variant \in {"rest", "wait", "run_app"} =>
       << TOWER_API_KEY, TOWER_SESSION_TOKEN, session_file >> \in RunEnvs
  \* job.py and the configuration scripts read none of the three
  /\ variant \in {"sdk", "re_sub"} \cup Scripts =>
       /\ TOWER_API_KEY = None
       /\ TOWER_SESSION_TOKEN = None
       /\ session_file = FileMissing
  /\ pc = IF variant \in {"wait", "auth", "run_app", "re_sub"} THEN "call"
          ELSE IF variant \in Scripts THEN "env_file"
          ELSE "launch1"
  /\ exit_code = None
  \* a direct caller of wait_for_run holds the id of a run that was started
  /\ run_ids = [s \in Stages |-> IF variant = "wait" /\ s = 1 THEN Some(RunId(1)) ELSE None]
  /\ remote = [s \in Stages |-> IF variant = "wait" /\ s = 1 THEN "pending" ELSE "none"]
  /\ term_at = [s \in Stages |-> None]
  /\ now = 0
  /\ w = IdleFrame
  /\ requests = << >>
  /\ printed = {}
  /\ sleeps = << >>
  /\ polls = NoPolls
  /\ launch_calls = << >>
  /\ wait_result = [s \in Stages |-> None]
  /\ call_result = None
  \* a direct call re.sub(pattern, resolve_env_vars, content) of either
  \* resolver; a run of either script; the job scripts use none of this
  /\ environ \in IF variant = "re_sub" THEN ReSubEnvirons
                 ELSE IF variant \in Scripts THEN ScriptEnvirons(variant)
                 ELSE {NoEnviron}
  /\ environ_at_start = environ
  /\ dotenv \in IF variant \in Scripts THEN DotenvFiles ELSE {None}
  /\ template \in IF variant = "re_sub" THEN {Some(t) : t \in Templates}
                  ELSE IF variant \in Scripts THEN ScriptTemplates
                  ELSE {None}
  /\ sc = IdleScript

Auth == get_auth_headers(TOWER_API_KEY, TOWER_SESSION_TOKEN, session_file)

\* a main that starts the stage again when its launch raised
main_after_launch_retry(s, r) ==
  IF r.exc = ""
    THEN [pc |-> WaitPc(s), exit_code |-> None]
    ELSE [pc |-> LaunchPc(s), exit_code |-> None]

\* job_api.py:161-163,179-182 / 194-196,212-215: run_app returned, so main
\* goes on to wait_for_run; run_app raised, so the except block exits 1
main_after_launch(s, r) ==
  IF r.exc = ""
    THEN [pc |-> WaitPc(s), exit_code |-> None]
    ELSE [pc |-> "exited", exit_code |-> Some(1)]

\* ------------------------------------------------------------ actions
\* job_api.py:161-163,176-178 / 194-196,209-211: main calls run_app for the
\* stage and, if it returned, enters wait_for_run with the defaults
Launch ==
  /\ variant = "rest"
  /\ pc \in {"launch1", "launch2"}
  /\ LET s == StageOf(pc) IN
     \E http \in HttpOutcomes, response \in StartResponses(s) :
       LET r == run_app(s, Auth, http, response) IN
         /\ launch_calls' = Append(launch_calls, s)
         /\ requests' = requests \o r.reqs
         /\ printed' = printed \cup r.out
         /\ remote' = IF r.reqs # << >> /\ http # "http_error"
                        THEN [remote EXCEPT ![s] = "pending"] ELSE remote
         /\ pc' = main_after_launch(s, r).pc
         /\ exit_code' = main_after_launch(s, r).exit_code
         /\ IF r.exc = ""
              THEN /\ run_ids' = [run_ids EXCEPT ![s] = r.val]
                   /\ w' = enter_wait(s, r.val[1], DefaultPollInterval, None, now)
              ELSE UNCHANGED << run_ids, w >>
         /\ sleeps' = IF r.exc = "" THEN << >> ELSE sleeps
         /\ polls' = IF r.exc = "" THEN NoPolls ELSE polls
  /\ UNCHANGED << envVars, cfgVars, term_at, now, wait_result, call_result >>

\* a direct call wait_for_run(run_id, poll_interval, timeout)
CallWait ==
  /\ variant = "wait"
  /\ pc = "call"
  /\ \E poll_interval \in 1..MaxInterval,
        timeout \in {None} \cup {Some(t) : t \in 0..MaxTimeout} :
       w' = enter_wait(1, run_ids[1][1], poll_interval, timeout, now)
  /\ pc' = "waiting"
  /\ UNCHANGED << envVars, cfgVars, exit_code, run_ids, remote, term_at, now, requests, printed,
                  sleeps, polls, launch_calls, wait_result, call_result >>

\* a direct call get_auth_headers()
CallAuth ==
  /\ variant = "auth"
  /\ pc = "call"
  /\ call_result' = Some([exc |-> Auth.exc, val |-> Auth.val])
  /\ pc' = "ended"
  /\ UNCHANGED << envVars, cfgVars, exit_code, run_ids, remote, term_at, now, w, requests, printed,
                  sleeps, polls, launch_calls, wait_result >>

\* a direct call run_app(app_name, parameters)
CallRunApp ==
  /\ variant = "run_app"
  /\ pc = "call"
  /\ \E s \in Stages, http \in HttpOutcomes :
       \E response \in StartResponses(s) :
         LET r == run_app(s, Auth, http, response) IN
           /\ call_result' = Some([stage |-> s, http |-> http, response |-> response,
                                   exc |-> r.exc, val |-> r.val])
           /\ launch_calls' = Append(launch_calls, s)
           /\ requests' = requests \o r.reqs
           /\ printed' = printed \cup r.out
           /\ remote' = IF r.reqs # << >> /\ http # "http_error"
                          THEN [remote EXCEPT ![s] = "pending"] ELSE remote
           /\ run_ids' = [run_ids EXCEPT ![s] = r.val]
  /\ pc' = "ended"
  /\ UNCHANGED << envVars, cfgVars, exit_code, term_at, now, w, sleeps, polls, wait_result >>

\* job_api.py:117-131: one pass of wait_for_run's loop; when the wait ends
\* under main, main's code up to its next call runs with it
Poll ==
  /\ w.state = "poll"
  /\ \E http \in HttpOutcomes, payload \in StatusPayloads(w.run_id, remote[w.stage]) :
       LET r == get_run_status(w.run_id, Auth, http, payload)
           f == wait_iteration(w, r, now)
           m == main_after_wait(w.stage, f)
           line121 == IF r.exc = "" THEN {w.run_id} ELSE {}
       IN /\ requests' = requests \o r.reqs
          /\ polls' = [calls |-> polls.calls + 1,
                        nonterminal |-> polls.nonterminal + (IF r.exc = "" /\ ~IsTerminal(r.val) THEN 1 ELSE 0),
                        last |-> r.val, exc |-> r.exc]
          /\ sleeps' = IF f.state = "sleep" THEN Append(sleeps, f.sleep_left) ELSE sleeps
          /\ w' = f
          /\ IF WaitEnded(f) /\ variant = "rest"
               THEN /\ pc' = m.pc
                    /\ exit_code' = m.exit_code
                    /\ printed' = printed \cup line121 \cup m.out
                    /\ wait_result' = [wait_result EXCEPT ![w.stage] = WaitOutcome(f)]
             ELSE /\ pc' = IF WaitEnded(f) THEN "ended" ELSE pc
                  /\ printed' = printed \cup line121
                  /\ UNCHANGED << exit_code, wait_result >>
  /\ UNCHANGED << envVars, cfgVars, run_ids, remote, term_at, now, launch_calls, call_result >>

\* job_api.py:131: time.sleep(poll_interval) blocks while the clock advances
Tick ==
  /\ w.state = "sleep"
  /\ now < MaxTime
  /\ now' = now + 1
  /\ w' = IF w.sleep_left = 1
            THEN [w EXCEPT !.sleep_left = 0, !.state = "poll"]
            ELSE [w EXCEPT !.sleep_left = w.sleep_left - 1]
  /\ UNCHANGED << envVars, cfgVars, pc, exit_code, run_ids, remote, term_at, requests, printed,
                  sleeps, polls, launch_calls, wait_result, call_result >>

\* the platform advances a run: pending -> running -> terminal, or pending -> terminal
RemoteStep ==
  /\ \E s \in Stages :
       /\ remote[s] \in NonTerminalStatuses
       /\ \E st \in (IF remote[s] = "pending" THEN {"running"} ELSE {}) \cup TerminalStatuses :
            /\ remote' = [remote EXCEPT ![s] = st]
            /\ term_at' = IF st \in TerminalStatuses
                            THEN [term_at EXCEPT ![s] = Some(now)] ELSE term_at
  /\ UNCHANGED << envVars, cfgVars, pc, exit_code, run_ids, now, w, requests, printed, sleeps,
                  polls, launch_calls, wait_result, call_result >>

\* -------------------------------------------------------- job.py main
Ids(runs) == { runs[i].run_id : i \in 1..Len(runs) }

\* the failure test looks at the wrong list
sdk_main_after_wait_wrong_list(s, successful_runs, unsuccessful_runs) ==
  IF Len(successful_runs) > 1
    THEN [pc |-> "exited", exit_code |-> Some(1), out |-> Ids(unsuccessful_runs)]
  ELSE IF s = 1
    THEN [pc |-> "launch2", exit_code |-> None, out |-> Ids(successful_runs)]
    ELSE [pc |-> "exited", exit_code |-> Some(0), out |-> Ids(successful_runs)]

\* job.py:42-51 and 73-86: what main does with wait_for_runs's two lists
sdk_main_after_wait(s, successful_runs, unsuccessful_runs) ==
  IF Len(unsuccessful_runs) > 0
    THEN [pc |-> "exited", exit_code |-> Some(1), out |-> Ids(unsuccessful_runs)]
  ELSE IF s = 1
    THEN [pc |-> "launch2", exit_code |-> None, out |-> Ids(successful_runs)]
    ELSE [pc |-> "exited", exit_code |-> Some(0), out |-> Ids(successful_runs)]

\* job.py:37 and 68: tower.run_app returns a run or raises (uncaught: exit 1)
SdkLaunch ==
  /\ variant = "sdk"
  /\ pc \in {"launch1", "launch2"}
  /\ LET s == StageOf(pc) IN
     \E ok \in BOOLEAN :
       /\ launch_calls' = Append(launch_calls, s)
       /\ IF ok
            THEN /\ run_ids' = [run_ids EXCEPT ![s] = Some(RunId(s))]
                 /\ remote' = [remote EXCEPT ![s] = "pending"]
                 /\ pc' = WaitPc(s)
                 /\ exit_code' = exit_code
            ELSE /\ pc' = "exited"
                 /\ exit_code' = Some(1)
                 /\ UNCHANGED << run_ids, remote >>
  /\ UNCHANGED << envVars, cfgVars, term_at, now, w, requests, printed, sleeps, polls, wait_result,
                  call_result >>

\* job.py:40-51 and 71-86: tower.wait_for_runs blocks until the run is
\* terminal and returns it in one of its two lists, or raises (uncaught: exit 1)
SdkWait ==
  /\ variant = "sdk"
  /\ pc \in {"wait1", "wait2"}
  /\ LET s == StageOf(pc)
         run == [run_id |-> run_ids[s][1], status |-> remote[s]]
     IN \E raises \in BOOLEAN :
          IF raises
            THEN /\ pc' = "exited"
                 /\ exit_code' = Some(1)
                 /\ wait_result' = [wait_result EXCEPT ![s] = Some([exc |-> "Exception", status |-> ""])]
                 /\ printed' = printed
            ELSE /\ remote[s] \in TerminalStatuses
                 /\ LET successful_runs == IF remote[s] = "succeeded" THEN << run >> ELSE << >>
                        unsuccessful_runs == IF remote[s] = "succeeded" THEN << >> ELSE << run >>
                        m == sdk_main_after_wait(s, successful_runs, unsuccessful_runs)
                    IN /\ pc' = m.pc
                       /\ exit_code' = m.exit_code
                       /\ printed' = printed \cup m.out
                       /\ wait_result' = [wait_result EXCEPT ![s] = Some([exc |-> "", status |-> remote[s]])]
  /\ UNCHANGED << envVars, cfgVars, run_ids, remote, term_at, now, w, requests, sleeps, polls,
                  launch_calls, call_result >>

\* ------------------------------------- the configuration scripts run
\* what the job scripts hold, which a configuration script never touches
jobVars ==
  << TOWER_API_KEY, TOWER_SESSION_TOKEN, session_file, run_ids, remote, term_at, now, w,
     requests, printed, sleeps, polls, launch_calls, wait_result, call_result >>

\* a direct call re.sub(r'\$\{([^}]+)\}', resolve_env_vars, content) with
\* the callback of either script
CallReSub ==
  /\ variant = "re_sub"
  /\ pc = "call"
  /\ \E resolver \in Resolvers :
       LET r == re_sub(resolver, environ, template[1]) IN
         sc' = [sc EXCEPT !.resolver = resolver, !.resolved = Some(r.out),
                          !.calls = r.calls]
  /\ pc' = "ended"
  /\ UNCHANGED << variant, jobVars, exit_code, environ, environ_at_start, dotenv, template >>

\* sling_run.py:17-35, dbt_run.py:36-54: the flag is read, then the .env
\* file is loaded or not
LoadEnvFile ==
  /\ variant \in Scripts
  /\ pc = "env_file"
  /\ environ' = env_file_step(environ, dotenv)
  /\ sc' = [sc EXCEPT !.use_env_file = Some(use_env_file(environ))]
  /\ pc' = "check"
  /\ UNCHANGED << variant, jobVars, exit_code, environ_at_start, dotenv, template >>

\* sling_run.py:39-53, dbt_run.py:57-66: the required variables are looked at
CheckRequired ==
  /\ variant \in Scripts
  /\ pc = "check"
  /\ LET c == check_required(variant, environ) IN
       /\ sc' = [sc EXCEPT !.warnings = c.warnings, !.found = c.found, !.error = c.exc]
       /\ pc' = IF c.exc = "" THEN "resolve" ELSE "exited"
       /\ exit_code' = IF c.exc = "" THEN exit_code ELSE Some(1)
  /\ UNCHANGED << variant, jobVars, environ, environ_at_start, dotenv, template >>

\* sling_run.py:57-74, dbt_run.py:69-103: the template is resolved and the
\* result published in the slot
ResolveTemplate ==
  /\ variant \in Scripts
  /\ pc = "resolve"
  /\ LET p == publish_template(variant, environ, template) IN
       /\ environ' = p.environ
       /\ sc' = [sc EXCEPT !.resolver = ResolverOf(variant), !.resolved = p.resolved,
                            !.calls = p.calls, !.slot_writes = sc.slot_writes + p.writes]
  /\ pc' = IF variant = "dbt_run" THEN "configure" ELSE "invoke"
  /\ UNCHANGED << variant, jobVars, exit_code, environ_at_start, dotenv, template >>

\* dbt_run.py:107-153: the settings of the dbt run are read; an exception
\* is not caught and ends the process
Configure ==
  /\ variant = "dbt_run"
  /\ pc = "configure"
  /\ \E tower_outcome \in TowerOutcomes :
       LET exc == dbt_configure(environ, tower_outcome) IN
         /\ sc' = [sc EXCEPT !.error = exc]
         /\ pc' = IF exc = "" THEN "invoke" ELSE "exited"
         /\ exit_code' = IF exc = "" THEN exit_code ELSE Some(1)
  /\ UNCHANGED << variant, jobVars, environ, environ_at_start, dotenv, template >>

\* sling_run.py:77-78: Replication(...).run(); dbt_run.py:155-166:
\* tower.dbt(...).run().  The tool reads the slot; it returns or raises.
InvokeTool ==
  /\ variant \in Scripts
  /\ pc = "invoke"
  /\ \E outcome \in {"returned", "raised"} :
       /\ sc' = [sc EXCEPT !.tool = Some(environ[Slot(variant)]),
                            !.error = IF outcome = "returned" THEN "" ELSE "tool"]
       /\ exit_code' = Some(IF outcome = "returned" THEN 0 ELSE 1)
  /\ pc' = "exited"
  /\ UNCHANGED << variant, jobVars, environ, environ_at_start, dotenv, template >>

Next ==
  \/ Launch
  \/ CallWait
  \/ CallAuth
  \/ CallRunApp
  \/ Poll
  \/ Tick
  \/ RemoteStep
  \/ SdkLaunch
  \/ SdkWait
  \/ CallReSub
  \/ LoadEnvFile
  \/ CheckRequired
  \/ ResolveTemplate
  \/ Configure
  \/ InvokeTool

Spec == Init /\ [][Next]_vars

\* =============================================================== claims
Pipeline == variant \in {"rest", "sdk"}

\* run_app was called for stage s
Launched(s) == \E i \in 1..Len(launch_calls) : launch_calls[i] = s

\* a start-run request for stage s was sent over HTTP
PostSent(s) ==
  \E i \in 1..Len(requests) :
    requests[i].method = "POST" /\ requests[i].url = <<"apps", AppName(s), "runs">>

Succeeded == Some([exc |-> "", status |-> "succeeded"])

\* the wait on stage s returned a payload (it did not raise)
WaitReturned(s) == wait_result[s] # None /\ wait_result[s][1].exc = ""
WaitRaised(s) == wait_result[s] # None /\ wait_result[s][1].exc # ""
\* run_app was called for stage s and raised
LaunchRaised(s) == Launched(s) /\ run_ids[s] = None

\* C1: in both variants of main, stage 2 (dbt_easy) is launched only after
\* the wait on stage 1 (sling_easy) returned the status 'succeeded': whenever
\* run_app has been called for stage 2, or a start-run request for it has
\* been sent, stage 1 was launched first, its wait has returned 'succeeded'
\* and its run is in that status on the platform.
C1_Stage2OnlyAfterStage1Succeeded ==
  (Pipeline /\ (Launched(2) \/ PostSent(2))) =>
    /\ launch_calls[1] = 1
    /\ run_ids[1] # None
    /\ wait_result[1] = Succeeded
    /\ remote[1] = "succeeded"

C1_Witness ==
  /\ variant = "rest"
  /\ PostSent(2)
  /\ pc = "wait2"
  /\ wait_result[1] = Succeeded

\* C2: if the wait on stage 1 returned failed, cancelled or error, stage 2
\* is never launched and the process has ended with exit code 1.
C2_Stage1FailureStopsPipeline ==
  (Pipeline /\ WaitReturned(1) /\ wait_result[1][1].status \in {"failed", "cancelled", "error"}) =>
    /\ ~Launched(2)
    /\ ~PostSent(2)
    /\ remote[2] = "none"
    /\ pc = "exited"
    /\ exit_code = Some(1)

C2_Witness ==
  /\ variant = "sdk"
  /\ WaitReturned(1)
  /\ wait_result[1][1].status = "cancelled"
  /\ exit_code = Some(1)

\* C3: if both waits returned 'succeeded' the process has ended with exit
\* code 0 and the run identifiers of both stages were printed; and exit
\* code 0 is reached only when both waits returned 'succeeded'.
C3_DoneIffBothSucceeded ==
  Pipeline =>
    /\ (wait_result[1] = Succeeded /\ wait_result[2] = Succeeded) =>
         /\ pc = "exited"
         /\ exit_code = Some(0)
         /\ run_ids[1] # None /\ run_ids[1][1] \in printed
         /\ run_ids[2] # None /\ run_ids[2][1] \in printed
    /\ exit_code = Some(0) =>
         /\ wait_result[1] = Succeeded
         /\ wait_result[2] = Succeeded
         /\ remote[1] = "succeeded" /\ remote[2] = "succeeded"

C3_Witness ==
  /\ variant = "rest"
  /\ exit_code = Some(0)
  /\ wait_result[1] = Succeeded /\ wait_result[2] = Succeeded
  /\ {run_ids[1][1], run_ids[2][1]} \subseteq printed

\* a stage of the REST pipeline failed: its launch raised, its wait raised,
\* or its wait returned a status other than 'succeeded'
StageFailed(s) ==
  \/ LaunchRaised(s)
  \/ WaitRaised(s)
  \/ WaitReturned(s) /\ wait_result[s][1].status # "succeeded"

\* C4: in the REST pipeline every failure of a stage (the launch raises, the
\* wait raises, the wait returns a status other than 'succeeded') ends the
\* process with exit code 1, and no start-run request follows it: none for
\* stage 2 after a failure of stage 1, and never more than one per stage.
C4_FailureIsFatal ==
  variant = "rest" =>
    /\ \A s \in Stages : StageFailed(s) => (pc = "exited" /\ exit_code = Some(1))
    /\ StageFailed(1) => (~Launched(2) /\ ~PostSent(2))
    /\ Len(launch_calls) <= 2
    /\ \A i \in 1..Len(launch_calls) : launch_calls[i] = i

C4_Witness ==
  /\ variant = "rest"
  /\ WaitRaised(2)
  /\ wait_result[2][1].exc = "HTTPStatusError"
  /\ exit_code = Some(1)

\* the last get_run_status call of the wait gave a payload without a
\* terminal status (pending, running, unknown, or no status field)
LastPollNonTerminal ==
  /\ polls.calls > 0
  /\ polls.exc = ""
  /\ GetOr(polls.last, "status", "unknown") \notin {"succeeded", "failed", "cancelled", "error"}

\* the wait goes on: it sleeps before its next poll, or is about to poll
PollsAgain == w.state \in {"sleep", "poll"}

ReturnsOnlyLastTerminalPayload ==
  w.state = "returned" =>
    /\ GetOr(w.status_data, "status", "unknown") \in {"succeeded", "failed", "cancelled", "error"}
    /\ polls.exc = ""
    /\ w.status_data = polls.last

\* C5 (as amended): wait_for_run returns a payload only when its status is
\* succeeded, failed, cancelled or error, and the payload returned is the one
\* the last poll fetched; a payload with any other status, or without a
\* status field, never causes a return: it leads to another poll, unless a
\* timeout is set and has elapsed, in which case TimeoutError is raised.
C5_ReturnsOnlyTerminal ==
  /\ ReturnsOnlyLastTerminalPayload
  /\ LastPollNonTerminal =>
       \/ PollsAgain
       \/ /\ w.state = "raised"
          /\ w.exc = "TimeoutError"
          /\ TruthyInt(w.timeout)
          /\ now - w.start_time > w.timeout[1]

\* C5 as stated: a payload without a terminal status always leads to
\* another poll.
C5_Original ==
  /\ ReturnsOnlyLastTerminalPayload
  /\ LastPollNonTerminal => PollsAgain

C5_Witness ==
  /\ variant = "wait"
  /\ w.state = "returned"
  /\ polls.nonterminal = 2
  /\ polls.last.status = "failed"

\* C6: without a timeout, a wait whose status source gave n non-terminal
\* statuses and then a terminal one has made exactly n+1 status fetches and
\* exactly n sleeps, each of exactly the poll interval (2 under main), and
\* returns the terminal payload.
C6_FetchesAndSleeps ==
  (w.state = "returned" /\ ~TruthyInt(w.timeout)) =>
    /\ polls.calls = polls.nonterminal + 1
    /\ Len(sleeps) = polls.nonterminal
    /\ \A i \in 1..Len(sleeps) : sleeps[i] = w.poll_interval
    /\ variant = "rest" => w.poll_interval = 2
    /\ w.status_data = polls.last
    /\ polls.last.status \in TerminalStatuses

C6_Witness ==
  /\ w.state = "returned"
  /\ w.timeout = None
  /\ w.poll_interval = 2
  /\ polls.nonterminal = 2
  /\ polls.calls = 3
  /\ sleeps = << 2, 2 >>
  /\ w.status_data.status = "succeeded"

\* C7: called with a timeout smaller than the time the run needs to reach a
\* terminal state, wait_for_run does not return a payload (it raises
\* TimeoutError); and it never returns a payload with a non-terminal status.
C7_TimeoutBeforeTerminal ==
  /\ w.state = "returned" => w.status_data.status \in TerminalStatuses
  /\ ( /\ TruthyInt(w.timeout)
       /\ term_at[w.stage] # None
       /\ w.timeout[1] < term_at[w.stage][1] - w.start_time )
     => w.state # "returned"

\* C8: without a credential nothing goes over the network: no request is
\* sent by run_app or get_run_status when get_auth_headers raises, no run is
\* started, and the pipeline ends at its first launch with exit code 1;
\* every request that is sent carries an Authorization header.
C8_NoRequestWithoutCredential ==
  /\ Auth.exc # "" =>
       /\ requests = << >>
       /\ variant \in {"rest", "run_app"} => \A s \in Stages : remote[s] = "none"
       /\ (variant = "rest" /\ Launched(1)) =>
            (launch_calls = << 1 >> /\ pc = "exited" /\ exit_code = Some(1))
       /\ (variant = "run_app" /\ call_result # None) => call_result[1].exc = "ValueError"
       /\ (variant = "wait" /\ polls.calls > 0) => (w.state = "raised" /\ w.exc = "ValueError")
  /\ \A i \in 1..Len(requests) : "Authorization" \in DOMAIN requests[i].headers

C8_Witness ==
  /\ variant = "wait"
  /\ Auth.exc # ""
  /\ polls.calls = 1
  /\ w.state = "raised"
  /\ requests = << >>

\* the session file yields a credential: it exists, parses to an object and
\* has a 'token' entry
SessionFileUsable ==
  /\ session_file.exists
  /\ session_file.parses
  /\ session_file.kind = "dict"
  /\ "token" \in DOMAIN session_file.data

\* the credential the priority order selects (None: none is available);
\* a variable counts as set when it holds a non-empty value
SelectedCredential ==
  IF TOWER_API_KEY \notin {None, Some("")} THEN TOWER_API_KEY
  ELSE IF TOWER_SESSION_TOKEN \notin {None, Some("")} THEN TOWER_SESSION_TOKEN
  ELSE IF SessionFileUsable THEN Some(Str(session_file.data.token))
  ELSE None

\* C9: get_auth_headers takes the API key if it is set, else the session
\* token if it is set, else the 'token' entry of the session file if the
\* file exists, parses and has one, and raises exactly when none of the
\* three yields a credential; every request carries the credential selected.
C9_CredentialPriority ==
  /\ (variant = "auth" /\ call_result # None) =>
       LET r == call_result[1] IN
         IF SelectedCredential = None
           THEN r.exc = "ValueError"
           ELSE /\ r.exc = ""
                /\ r.val.Authorization = << "Bearer", SelectedCredential[1] >>
  /\ \A i \in 1..Len(requests) :
       /\ SelectedCredential # None
       /\ requests[i].headers.Authorization = << "Bearer", SelectedCredential[1] >>

C9_Witness ==
  /\ variant = "auth"
  /\ call_result # None
  /\ TOWER_API_KEY = Some("")
  /\ TOWER_SESSION_TOKEN = Some("S")
  /\ session_file = FileToken
  /\ call_result[1].val.Authorization = << "Bearer", "S" >>

\* C10: run_app takes the run identifier from the 'run_id' field of the
\* start-run answer if it carries a value, else from the 'id' field if that
\* carries one, and raises ValueError when neither does; it never returns
\* an empty or missing identifier.
C10_RunIdExtraction ==
  /\ (variant = "run_app" /\ call_result # None) =>
       LET c == call_result[1]
           run_id == Get(c.response, "run_id")
           id == Get(c.response, "id")
       IN /\ (c.exc = "" => (c.val # None /\ c.val[1] # ""))
          /\ (Auth.exc = "" /\ c.http = "ok") =>
               IF run_id \notin {None, Some("")} THEN c.exc = "" /\ c.val = run_id
               ELSE IF id \notin {None, Some("")} THEN c.exc = "" /\ c.val = id
               ELSE c.exc = "ValueError" /\ c.val = None
  /\ \A s \in Stages : run_ids[s] # None => run_ids[s][1] # ""

C10_Witness ==
  /\ variant = "run_app"
  /\ call_result # None
  /\ call_result[1].response = [status |-> Some("pending"), run_id |-> Some("r1"), id |-> Some("x1")]
  /\ call_result[1].exc = ""
  /\ call_result[1].val = Some("r1")


\* the positions in the request log of the start-run requests for stage s
StartRequests(s) ==
  {i \in 1..Len(requests) :
     requests[i].method = "POST" /\ requests[i].url = <<"apps", AppName(s), "runs">>}

\* C11: the REST pipeline never retries a launch: run_app is called, and a
\* start-run request is sent, at most once per stage (so at most twice in
\* all), and once a launch has raised the process has exited with code 1
\* with the failed start-run request, if one was sent, as the last request
\* it ever made: no start-run and no get-status request follows it.
C11_NoRetryOnLaunchFailure ==
  variant = "rest" =>
    /\ \A s \in Stages :
         /\ Cardinality(StartRequests(s)) <= 1
         /\ Cardinality({i \in 1..Len(launch_calls) : launch_calls[i] = s}) <= 1
    /\ Cardinality({i \in 1..Len(requests) : requests[i].method = "POST"}) <= 2
    /\ \A s \in Stages :
         LaunchRaised(s) =>
           /\ pc = "exited"
           /\ exit_code = Some(1)
           /\ \A i \in StartRequests(s) : i = Len(requests)
           /\ \A t \in Stages : t > s => ~Launched(t)

\* stage 2's start-run request was sent and its launch raised
C11_Witness ==
  /\ variant = "rest"
  /\ LaunchRaised(2)
  /\ PostSent(2)
  /\ pc = "exited"


\* a request the orchestrator is written to send: start a run of one of the
\* two apps, or read the status of a run
StartOrStatusRequest(q) ==
  \/ q.method = "POST" /\ \E s \in Stages : q.url = <<"apps", AppName(s), "runs">>
  \/ q.method = "GET" /\ Len(q.url) = 2 /\ q.url[1] = "runs"

\* what the orchestrator process holds and does
orchestratorVars ==
  << pc, exit_code, run_ids, now, w, requests, printed, sleeps, polls, launch_calls,
     wait_result, call_result >>

\* C12: the orchestrator never cancels, rolls back or otherwise mutates a
\* run: in every step the request log only grows, and only by start-run
\* (POST) and get-status (GET) requests; the id recorded for a started run
\* never changes; and the status of a started run changes only in a step of
\* the platform, in which the orchestrator does nothing. This holds on the
\* timeout and the failure paths like on every other.
C12_NeverMutatesARun ==
  [][ /\ Len(requests') >= Len(requests)
      /\ SubSeq(requests', 1, Len(requests)) = requests
      /\ \A i \in 1..Len(requests') : StartOrStatusRequest(requests'[i])
      /\ \A s \in Stages :
           /\ run_ids[s] # None => run_ids'[s] = run_ids[s]
           /\ remote[s] # "none" /\ remote'[s] # remote[s] =>
                /\ remote[s] \in NonTerminalStatuses
                /\ UNCHANGED orchestratorVars
    ]_vars

\* a wait ended in TimeoutError and the run it watched is still running,
\* under the id the caller passed, with only status requests sent
C12_Witness ==
  /\ variant = "wait"
  /\ w.exc = "TimeoutError"
  /\ remote[1] = "running"
  /\ run_ids[1] = Some(w.run_id)
  /\ requests # << >>
  /\ \A i \in 1..Len(requests) : requests[i].method = "GET"


RunDuration == 1

\* by then both waits have ended, if each run keeps to RunDuration
LiveHorizon == 2 * (RunDuration + DefaultPollInterval)

LiveInit == Init /\ variant = "rest"

\* a poll whose payload, once the run is terminal, reports the status
LivePoll ==
  /\ Poll
  /\ remote[w.stage] \in TerminalStatuses /\ polls'.exc = "" =>
       "status" \in DOMAIN polls'.last

\* job_api.py:131: the sleep goes on; the clock does not pass the run's
\* deadline while the run is not terminal
LiveTick ==
  /\ w.state = "sleep"
  /\ now < LiveHorizon
  /\ remote[w.stage] \in TerminalStatuses \/ now < w.start_time + RunDuration
  /\ now' = now + 1
  /\ w' = IF w.sleep_left = 1
            THEN [w EXCEPT !.sleep_left = 0, !.state = "poll"]
            ELSE [w EXCEPT !.sleep_left = w.sleep_left - 1]
  /\ UNCHANGED << envVars, cfgVars, pc, exit_code, run_ids, remote, term_at, requests, printed,
                  sleeps, polls, launch_calls, wait_result, call_result >>

LiveNext ==
  \/ Launch
  \/ LivePoll
  \/ LiveTick
  \/ RemoteStep

\* main is one thread that keeps running, sleeps return, and the platform
\* keeps working on a run it has accepted
LiveSpec ==
  /\ LiveInit
  /\ [][LiveNext]_vars
  /\ WF_vars(Launch)
  /\ WF_vars(LivePoll)
  /\ WF_vars(LiveTick)
  /\ WF_vars(RemoteStep)

\* C19: every execution of the REST pipeline ends: the process eventually
\* exits with code 0 (DONE) or 1 (FAILED), given that each launched run
\* becomes terminal and reports it and that every request returns. main
\* calls wait_for_run without a timeout, so no wait is ever left through
\* TimeoutError: a wait ends only on a terminal status or a failed request.
C19_PipelineTerminates ==
  /\ <>(pc = "exited" /\ exit_code \in {Some(0), Some(1)})
  /\ [](w.state # "idle" => w.timeout = None /\ w.exc # "TimeoutError")

\* the pipeline ended with exit code 0 after a wait that had to poll again
C19_Witness ==
  /\ pc = "exited"
  /\ exit_code = Some(0)
  /\ polls.nonterminal >= 1
  /\ Len(sleeps) >= 1


\* ------------------------------------------- the configuration scripts
\* the variable a placeholder names is not set
Unset(env, var_name) ==
  ~(Len(var_name) = 1 /\ var_name[1] \in DOMAIN env /\ env[var_name[1]] # None)

\* text sub occurs in text as a whole
Occurs(sub, text) ==
  \E k \in 1..(Len(text) - Len(sub) + 1) : SubSeq(text, k, k + Len(sub) - 1) = sub

\* the resolution of the template has been carried out
Resolved == sc.resolved # None

\* the variable names the input templates use in placeholders
TemplateNames == {"TAXI_PG_USER", "TAXI_PG_PASSWORD", "PORT"}

\* C13: in both resolvers, for every template and environment, a placeholder
\* ${NAME} whose variable is not set is left as it is: the callback returns
\* the placeholder's own text, without quotes, that text stands in the
\* resolved output, and a template none of whose variables is set comes out
\* unchanged. The resolution raises nothing: a direct call always ends with
\* an output.
C13_AbsentPlaceholderPreserved ==
  /\ variant = "re_sub" /\ pc = "ended" => Resolved
  /\ Resolved =>
       /\ \A k \in 1..Len(sc.calls) :
            Unset(environ, sc.calls[k].group1) =>
              /\ sc.calls[k].ret = sc.calls[k].group0
              /\ Occurs(sc.calls[k].group0, sc.resolved[1])
       /\ \A n \in TemplateNames :
            Unset(environ, <<n>>) /\ Occurs(Placeholder(n), template[1]) =>
              Occurs(Placeholder(n), sc.resolved[1])
       /\ (\A k \in 1..Len(sc.calls) : Unset(environ, sc.calls[k].group1)) =>
            sc.resolved[1] = template[1]

\* the profiles.yml resolver resolved a template with a placeholder whose
\* variable is not set and one whose variable is set
C13_Witness ==
  /\ variant = "re_sub"
  /\ Resolved
  /\ sc.resolver = "profiles.yml"
  /\ \E k, l \in 1..Len(sc.calls) :
       /\ Unset(environ, sc.calls[k].group1)
       /\ ~Unset(environ, sc.calls[l].group1)
       /\ sc.calls[l].ret # sc.calls[l].group0
  /\ sc.resolved[1] # template[1]

\* the calls of the profiles.yml callback for a variable that is set
SetCalls ==
  {k \in 1..Len(sc.calls) : ~Unset(environ, sc.calls[k].group1)}
ValueOf(k) == environ[sc.calls[k].group1[1]][1]
AlreadyQuoted(v) == v # << >> /\ v[1] = Quote /\ v[Len(v)] = Quote

FlagAllowsEnvFile ==
  \/ environ_at_start["TOWER_PARAMETER_USE_ENV"] = None
  \/ lower(environ_at_start["TOWER_PARAMETER_USE_ENV"][1]) = <<"t", "r", "u", "e">>

\* the .env file is there and the flag lets the script load it
EnvFileLoaded == FlagAllowsEnvFile /\ dotenv # None

\* the environment the claim describes for the time after the env-file step
EnvAfterEnvFile ==
  [n \in EnvNames |->
     IF EnvFileLoaded /\ n \in DOMAIN dotenv[1] THEN Some(dotenv[1][n]) ELSE environ_at_start[n]]

\* C16: in both scripts the env-file step comes before the resolution of the
\* template and overrides: while the step is still to come nothing has been
\* resolved; after it, if the flag is unset or equals 'true' in any case and
\* the .env file exists, every key of the file has the file's value, also
\* where the process had its own, and every other variable is as before; if
\* the flag has another value or the file is missing, the environment is as
\* the script found it. The resolved template is the one these values give.
C16_EnvFileOverrides ==
  variant \in Scripts =>
    /\ pc = "env_file" => ~Resolved /\ environ = environ_at_start
    /\ pc # "env_file" =>
         /\ \A n \in EnvNames \ {Slot(variant)} : environ[n] = EnvAfterEnvFile[n]
         /\ ~EnvFileLoaded =>
              \A n \in EnvNames \ {Slot(variant)} : environ[n] = environ_at_start[n]
         /\ pc \in {"check", "resolve"} => environ = EnvAfterEnvFile
         /\ Resolved =>
              /\ sc.resolved[1] = re_sub(ResolverOf(variant), EnvAfterEnvFile, template[1]).out
              /\ \A k \in 1..Len(sc.calls) :
                   LET name == sc.calls[k].group1[1] IN
                     EnvFileLoaded /\ variant = "sling_run" /\ name \in DOMAIN dotenv[1] =>
                       sc.calls[k].ret = dotenv[1][name]

\* sling_run.py, with the flag set to 'TruE', loaded a .env file that gives
\* TAXI_PG_USER a value other than the one the process had, and the resolved
\* env.yaml carries the file's value
C16_Witness ==
  /\ variant = "sling_run"
  /\ environ_at_start["TOWER_PARAMETER_USE_ENV"] = Some(<<"T", "r", "u", "E">>)
  /\ environ_at_start["TAXI_PG_USER"] = Some(ValDev)
  /\ dotenv = Some([TAXI_PG_USER |-> <<"5">>])
  /\ Resolved
  /\ sc.resolved[1] = <<"user: ", "5">>


\* the required variables the script does not find: unset, or set to nothing
MissingRequired ==
  {v \in RequiredVars(variant) : environ[v] = None \/ environ[v][1] = << >>}

\* the external tool has been invoked
ToolInvoked == sc.tool # None

\* the steps a configuration script can be at while it runs
ScriptSteps ==
  {"env_file", "check", "resolve", "invoke"}
    \cup (IF variant = "dbt_run" THEN {"configure"} ELSE {})

\* C17: a missing 'required' variable (TAXI_PG_PASSWORD, TAXI_PG_USER,
\* SLING_CLI_TOKEN, INSTANCE) is a warning and nothing more. Whatever subset
\* of them is missing, the check records one warning per missing variable
\* and the script goes on: as long as it has not exited it is at its next step,
\* the tool is invoked after the resolution of the template, and the only
\* errors are those of the steps behind the check, none of which reads a
\* required variable: a DBT_THREADS that is no integer, a call into
\* tower.dbt that raises, the tool itself raising.
C17_MissingVariableOnlyWarns ==
  variant \in Scripts =>
    /\ pc \notin {"env_file", "check"} =>
         /\ sc.warnings = MissingRequired
         /\ sc.found = RequiredVars(variant) \ MissingRequired
    /\ pc # "exited" => sc.error = "" /\ exit_code = None /\ pc \in ScriptSteps
    /\ sc.error \in {"", "ValueError", "tower.dbt", "tool"}
    /\ sc.error \in {"ValueError", "tower.dbt"} => variant = "dbt_run" /\ ~ToolInvoked
    /\ sc.error = "ValueError" =>
         /\ environ["DBT_THREADS"] # None
         /\ ~int_parses(environ["DBT_THREADS"][1])
    /\ pc = "exited" => ToolInvoked \/ sc.error \in {"ValueError", "tower.dbt"}
    /\ ToolInvoked => pc = "exited" /\ (template # None => Resolved)

\* sling_run.py found none of its four required variables, warned about
\* each, resolved the template and invoked the tool, which returned
C17_Witness ==
  /\ variant = "sling_run"
  /\ sc.warnings = RequiredVars("sling_run")
  /\ Resolved
  /\ ToolInvoked
  /\ exit_code = Some(0)


\* the script is behind its template step
PastResolve == pc \notin {"env_file", "check", "resolve"}

\* what C18 says of the slot in a state: written once if the template file
\* exists and not at all if it does not; once written it holds the
\* resolver's output, and that is what the tool finds in it when invoked
SlotState ==
  /\ sc.slot_writes <= 1
  /\ sc.slot_writes = 1 <=> Resolved
  /\ Resolved <=> template # None /\ PastResolve
  /\ Resolved => environ[Slot(variant)] = sc.resolved
  /\ ToolInvoked =>
       /\ PastResolve
       /\ sc.tool[1] = environ[Slot(variant)]
       /\ template # None => sc.tool[1] = sc.resolved
  /\ template = None => environ[Slot(variant)] = environ_at_start[Slot(variant)]

\* what C18 says of a step: the template is never changed; the slot changes
\* only in the template step and only if the template file exists; and the
\* template step changes no other variable of the environment
SlotStep ==
  /\ template' = template
  /\ variant = "re_sub" => environ' = environ
  /\ variant \in Scripts =>
       /\ environ'[Slot(variant)] # environ[Slot(variant)] =>
            pc = "resolve" /\ template # None /\ sc.slot_writes = 0
       /\ pc = "resolve" =>
            \A n \in EnvNames \ {Slot(variant)} : environ'[n] = environ[n]

====
